---------------------------- MODULE Spec2Model ----------------------------
(***************************************************************************)
(* Model of the router DNS configurator (src/index.js and its variant      *)
(* src/unnamed/part_000): one run of the async main function, the helper   *)
(* functions it awaits, and the browser engine as the environment.         *)
(*                                                                         *)
(* Every awaited browser operation either completes or raises; the page    *)
(* facts it observes (which selectors match, which texts are present) are  *)
(* inputs drawn from small sets at the step that observes them.  The DOM   *)
(* of the content frame is a sequence of input elements whose id, name and *)
(* class are character sequences, so that selector and pattern matching is *)
(* computed as the browser computes it.                                    *)
(***************************************************************************)
EXTENDS Integers, Sequences, FiniteSets, TLC

\* ------------------------------------------------------------------ bounds
\* Longest selector list explored by the stand-alone cascade specification.
MaxSelLen == 4
\* Most input elements in the content frame's form.
MaxInputs == 2
MaxDialogs == 2

\* ----------------------------------------------------------------- strings
\* A string is a sequence of one-character strings.
UpperChars == <<"A","B","C","D","E","F","G","H","I","J","K","L","M",
                "N","O","P","Q","R","S","T","U","V","W","X","Y","Z">>
LowerChars == <<"a","b","c","d","e","f","g","h","i","j","k","l","m",
                "n","o","p","q","r","s","t","u","v","w","x","y","z">>

\* String.prototype.toLowerCase, one character.
LowerChar(c) ==
    IF \E i \in 1..Len(UpperChars) : UpperChars[i] = c
    THEN LowerChars[CHOOSE i \in 1..Len(UpperChars) : UpperChars[i] = c]
    ELSE c

\* String.prototype.toLowerCase; also the "i" flag of a selector or regex.
Lower(s) == [i \in 1..Len(s) |-> LowerChar(s[i])]

\* String.prototype.includes / the *= attribute operator.
Contains(s, p) ==
    \E k \in 0..(Len(s) - Len(p)) : \A i \in 1..Len(p) : s[k + i] = p[i]

\* ---------------------------------------------------------------- elements
\* An input element of the content frame.  label is the text of the label
\* element that precedes it (<<>>: none) and assoc how that label is tied to
\* it: "for" (for=id), "nested" (the input is inside the label) or "sibling"
\* (label and input are children of one parent).
Elem(id, name, cls, label, assoc) ==
    [id |-> id, name |-> name, cls |-> cls, label |-> label, assoc |-> assoc]

InputKinds ==
    { Elem(<<"d","n","s","M","a","i","n","P","r","i">>, <<>>, <<>>, <<>>, "none"),
      Elem(<<"d","n","s","M","a","i","n","S","e","c">>, <<>>, <<>>, <<>>, "none"),
      Elem(<<"f","o","o","-","d","n","s","-","a">>, <<>>, <<>>, <<>>, "none"),
      Elem(<<"f","o","o","-","d","n","s","-","b">>, <<>>, <<>>, <<>>, "none"),
      Elem(<<"w","a","n","_","d","n","s">>, <<>>, <<>>, <<>>, "none"),
      Elem(<<"p","r","i","m","a","r","y">>, <<>>, <<>>, <<>>, "none"),
      Elem(<<>>, <<>>, <<>>,
           <<"P","r","i","m","a","r","y"," ","D","N","S"," ",
             "S","e","r","v","e","r">>, "sibling"),
      Elem(<<>>, <<>>, <<>>,
           <<"S","e","c","o","n","d","a","r","y"," ","D","N","S"," ",
             "S","e","r","v","e","r">>, "sibling") }

\* The forms of up to MaxInputs distinct inputs, in document order.
RECURSIVE FormsOfLen(_)
FormsOfLen(n) ==
    IF n = 0 THEN { <<>> }
    ELSE { Append(f, e) : f \in FormsOfLen(n - 1), e \in InputKinds }

Forms ==
    { f \in UNION { FormsOfLen(n) : n \in 0..MaxInputs } :
        \A i, j \in 1..Len(f) : i # j => f[i] # f[j] }

\* A content-frame document: its inputs, whether all labels and inputs are
\* children of one parent element (else each label/input pair has a parent
\* of its own; without such a label the two cases do not differ), and
\* whether the form is rendered with values already in its fields.
Pages ==
    { p \in [inputs : Forms, shared : BOOLEAN, filled : BOOLEAN] :
        p.shared => \E i \in 1..Len(p.inputs) : p.inputs[i].assoc = "sibling" }

NoPage == [inputs |-> <<>>, shared |-> FALSE, filled |-> FALSE]

\* The documents of the firmware the script is written for: its DHCP form
\* has the inputs dnsMainPri and dnsMainSec, here with either, both or
\* none of them present.
FirmwareKinds ==
    { e \in InputKinds :
        e.id \in { <<"d","n","s","M","a","i","n","P","r","i">>,
                   <<"d","n","s","M","a","i","n","S","e","c">> } }

FirmwarePages ==
    { p \in Pages : \A i \in 1..Len(p.inputs) : p.inputs[i] \in FirmwareKinds }

\* The state of one input: its value (a sequence of text pieces: <<>> is the
\* empty string, typing appends a piece), whether an input event was
\* dispatched on it, and whether a change event was dispatched after its
\* value was last set.
Field(val, inp, chg) == [val |-> val, inp |-> inp, chg |-> chg]

\* The form as the router renders it: every field empty, or every field
\* showing the currently configured server.
InitialFields(page) ==
    [i \in 1..Len(page.inputs) |->
        Field(IF page.filled THEN <<"old">> ELSE <<>>, FALSE, FALSE)]

\* --------------------------------------------------------------- selectors
\* input#x / input[name="x"] (op "eq", case-sensitive) and
\* input[id*="x" i] / input[name*="x" i] (op "has", case-insensitive).
Sel(attr, op, arg) == [attr |-> attr, op |-> op, arg |-> arg]

\* SELECTORS.primaryDns
primaryDns ==
    << Sel("id", "eq", <<"d","n","s","M","a","i","n","P","r","i">>),
       Sel("name", "eq", <<"d","n","s","M","a","i","n","P","r","i">>),
       Sel("id", "has", <<"d","n","s","M","a","i","n","P","r","i">>),
       Sel("id", "has", <<"d","n","s","p","r","i">>),
       Sel("name", "has", <<"d","n","s","p","r","i">>),
       Sel("id", "eq", <<"P","r","i","m","a","r","y","D","N","S",
                         "S","e","r","v","e","r">>),
       Sel("name", "eq", <<"P","r","i","m","a","r","y","D","N","S",
                           "S","e","r","v","e","r">>),
       Sel("id", "eq", <<"p","r","i","m","a","r","y","_","d","n","s">>),
       Sel("name", "eq", <<"p","r","i","m","a","r","y","_","d","n","s">>),
       Sel("name", "eq", <<"d","n","s","1">>),
       Sel("id", "eq", <<"d","n","s","1">>),
       Sel("id", "has", <<"p","r","i","m","a","r","y">>),
       Sel("name", "has", <<"p","r","i","m","a","r","y">>) >>

\* SELECTORS.secondaryDns
secondaryDns ==
    << Sel("id", "eq", <<"d","n","s","M","a","i","n","S","e","c">>),
       Sel("name", "eq", <<"d","n","s","M","a","i","n","S","e","c">>),
       Sel("id", "has", <<"d","n","s","M","a","i","n","S","e","c">>),
       Sel("id", "has", <<"d","n","s","s","e","c">>),
       Sel("name", "has", <<"d","n","s","s","e","c">>),
       Sel("id", "eq", <<"S","e","c","o","n","d","a","r","y","D","N","S",
                         "S","e","r","v","e","r">>),
       Sel("name", "eq", <<"S","e","c","o","n","d","a","r","y","D","N","S",
                           "S","e","r","v","e","r">>),
       Sel("id", "eq", <<"s","e","c","o","n","d","a","r","y","_","d","n","s">>),
       Sel("name", "eq", <<"s","e","c","o","n","d","a","r","y","_","d","n","s">>),
       Sel("name", "eq", <<"d","n","s","2">>),
       Sel("id", "eq", <<"d","n","s","2">>),
       Sel("id", "has", <<"s","e","c","o","n","d","a","r","y">>),
       Sel("name", "has", <<"s","e","c","o","n","d","a","r","y">>) >>

\* Whether element e matches selector s.
Matches(s, e) ==
    IF s.op = "eq" THEN e[s.attr] = s.arg
    ELSE Contains(Lower(e[s.attr]), Lower(s.arg))

\* Matches, tabulated over the selectors of both lists and the inputs of
\* the model.
MatchTable ==
    [s \in { primaryDns[k] : k \in 1..Len(primaryDns) } \cup
            { secondaryDns[k] : k \in 1..Len(secondaryDns) } |->
        { e \in InputKinds : Matches(s, e) }]

\* ctx.$(sel) on the content frame: the first matching input in document
\* order (its index), 0 when none matches.
QueryFrame(pg, s) ==
    IF \E i \in 1..Len(pg.inputs) : pg.inputs[i] \in MatchTable[s]
    THEN CHOOSE i \in 1..Len(pg.inputs) :
            /\ pg.inputs[i] \in MatchTable[s]
            /\ \A j \in 1..(i - 1) : pg.inputs[j] \notin MatchTable[s]
    ELSE 0

\* ---------------------------------------------------------------- cascades
\* The outcome of one ctx.$(sel): an element handle (>= 1), null, or the
\* engine raising (a malformed or unsupported pattern, a detached context).
QNull == 0
QError == 0 - 1

RECURSIVE waitAndTypeFirstFrom(_, _, _, _)
\* waitAndTypeFirst from selector i on: q[i] is the outcome of the i-th
\* query, typeErr whether el.type raises.  res is "true", "false" or
\* "throw"; el the element clicked and typed into; queried the number of
\* queries issued.
waitAndTypeFirstFrom(v, q, i, typeErr) ==
    IF i > Len(q) THEN [res |-> "false", el |-> 0, sel |-> 0, queried |-> Len(q)]
    ELSE IF q[i] = QError
         THEN IF v = "part_000"
              THEN [res |-> "throw", el |-> 0, sel |-> 0, queried |-> i]
              ELSE waitAndTypeFirstFrom(v, q, i + 1, typeErr)
    ELSE IF q[i] = QNull THEN waitAndTypeFirstFrom(v, q, i + 1, typeErr)
    ELSE [res |-> IF typeErr THEN "throw" ELSE "true",
          el |-> q[i], sel |-> i, queried |-> i]

waitAndTypeFirst(v, q, typeErr) == waitAndTypeFirstFrom(v, q, 1, typeErr)

RECURSIVE clickFirstFrom(_, _, _)
\* clickFirst from selector i on; a raising query and a raising click are
\* both swallowed in either variant.
clickFirstFrom(v, q, i) ==
    IF i > Len(q) THEN [res |-> "false", el |-> 0, sel |-> 0, queried |-> Len(q)]
    ELSE IF q[i] = QError \/ q[i] = QNull THEN clickFirstFrom(v, q, i + 1)
    ELSE [res |-> "true", el |-> q[i], sel |-> i, queried |-> i]

clickFirst(v, q) == clickFirstFrom(v, q, 1)

\* --------------------------------------------------------- frame locator
\* getContentFrame: fq[k] is what the k-th iframe selector yields: "absent"
\* (page.$ gives null), "error" (page.$ raises), "noframe" (a handle whose
\* contentFrame() is null or raises) or "frame".  Every failure moves on to
\* the next selector; the result is whether a frame was returned.
RECURSIVE getContentFrameFrom(_, _)
getContentFrameFrom(fq, k) ==
    IF k > Len(fq) THEN FALSE
    ELSE IF fq[k] = "frame" THEN TRUE
    ELSE getContentFrameFrom(fq, k + 1)

getContentFrame(fq) == getContentFrameFrom(fq, 1)

\* The number of iframe selectors getContentFrame tries.
NFrameSelectors == 5

\* The page states a call of getContentFrame is run against: no frame, or a
\* frame behind exactly one selector, the other selectors all failing in
\* one way.
FrameEnvs ==
    { [k \in 1..NFrameSelectors |-> IF k = at THEN "frame" ELSE d] :
        at \in 0..NFrameSelectors, d \in {"absent", "error", "noframe"} }

\* ----------------------------------------------------------- text matcher
\* clickByText(page, text): o is what page.evaluate does: "interactive" (an
\* element of the allow-list matched and was clicked), "any" (only the
\* last-resort scan matched), "none", or "error" (evaluate raises, which
\* the function does not catch).
clickByText(o) ==
    IF o = "error" THEN "throw"
    ELSE IF o = "none" THEN "false"
    ELSE "true"

\* clickByTextInContext(ctx, text): o is "visible" (a visible element
\* matched and was clicked), "none", or "error" (caught: false).
clickByTextInContext(o) ==
    IF o = "visible" THEN "true" ELSE "false"

\* ----------------------------------------------------------- field writer
\* el.click({clickCount: 3}) then el.type(value): a click that went through
\* selects the field's content, which the typed text replaces; after a
\* click that raised (swallowed) the text is typed into the content that is
\* there.  Typing dispatches input events and no change event.
TypeInto(f, v, clickOk) ==
    Field((IF clickOk THEN <<>> ELSE f.val) \o <<v>>, TRUE, FALSE)

\* setInputByLabel's write: value = "", input, value = v, input.
WriteByLabel(f, v) == Field(<<v>>, TRUE, FALSE)

\* setDnsByHeuristic.setVal: value = "", input, value = v, input, change.
setVal(f, v) == Field(<<v>>, TRUE, TRUE)

\* -------------------------------------------------------- label association
\* The input a label resolves to: its for= target, else an input nested in
\* it, else the first input of its parent element (0: none).
LabelTarget(page, i) ==
    LET e == page.inputs[i] IN
    IF e.assoc = "for" /\ e.id # <<>> THEN
        CHOOSE j \in 1..Len(page.inputs) :
            /\ page.inputs[j].id = e.id
            /\ \A k \in 1..(j - 1) : page.inputs[k].id # e.id
    ELSE IF e.assoc \in {"for", "nested"} THEN i
    ELSE IF e.assoc = "sibling" THEN (IF page.shared THEN 1 ELSE i)
    ELSE 0

\* Whether the label in front of input e contains labelText, ignoring case.
labelIncludes(e, labelText) ==
    /\ e.label # <<>>
    /\ Contains(Lower(e.label), Lower(labelText))

\* The label texts setDnsValues tries, in order.
PrimaryLabels ==
    << <<"P","r","i","m","a","r","y"," ","D","N","S"," ","S","e","r","v","e","r">>,
       <<"P","r","i","m","a","r","y"," ","D","N","S">>,
       <<"S","e","r","v","i","d","o","r"," ","D","N","S"," ",
         "p","r","i","m","a'","r","i","o">>,
       <<"P","r","e","f","e","r","r","e","d"," ","D","N","S">> >>

SecondaryLabels ==
    << <<"S","e","c","o","n","d","a","r","y"," ","D","N","S"," ","S","e","r","v","e","r">>,
       <<"S","e","c","o","n","d","a","r","y"," ","D","N","S">>,
       <<"S","e","r","v","i","d","o","r"," ","D","N","S"," ",
         "s","e","c","u","n","d","a'","r","i","o">>,
       <<"A","l","t","e","r","n","a","t","e"," ","D","N","S">> >>

\* labelIncludes, tabulated over the label texts and the inputs of the model.
LabelTable ==
    [t \in { PrimaryLabels[k] : k \in 1..Len(PrimaryLabels) } \cup
            { SecondaryLabels[k] : k \in 1..Len(SecondaryLabels) } |->
        { e \in InputKinds : labelIncludes(e, t) }]

LabelMatches(pg, i, labelText) == pg.inputs[i] \in LabelTable[labelText]

RECURSIVE setInputByLabelFrom(_, _, _, _)
\* The label scan from label i on: the input written (0: none).  index.js
\* goes on to the next matching label when one resolves to no input;
\* part_000 looks at the first matching label only.
setInputByLabelFrom(v, page, labelText, i) ==
    IF i > Len(page.inputs) THEN 0
    ELSE IF ~LabelMatches(page, i, labelText)
         THEN setInputByLabelFrom(v, page, labelText, i + 1)
    ELSE IF LabelTarget(page, i) # 0 THEN LabelTarget(page, i)
    ELSE IF v = "part_000" THEN 0
    ELSE setInputByLabelFrom(v, page, labelText, i + 1)

\* setInputByLabel(frame, labelText, value); err: page.evaluate raises,
\* which the function does not catch.
setInputByLabel(v, page, fields, labelText, value, err) ==
    LET t == setInputByLabelFrom(v, page, labelText, 1) IN
    IF err THEN [res |-> "throw", el |-> 0, fields |-> fields]
    ELSE IF t = 0 THEN [res |-> "false", el |-> 0, fields |-> fields]
    ELSE [res |-> "true", el |-> t,
          fields |-> [fields EXCEPT ![t] = WriteByLabel(fields[t], value)]]

RECURSIVE setByLabelsFrom(_, _, _, _, _, _, _)
\* a || b || c || d over the label texts from the k-th on: errAt is the
\* call whose evaluate raises (0: none).  tried is the number of calls made.
setByLabelsFrom(v, page, fields, labels, value, errAt, k) ==
    IF k > Len(labels)
    THEN [res |-> "false", el |-> 0, fields |-> fields, tried |-> Len(labels)]
    ELSE LET r == setInputByLabel(v, page, fields, labels[k], value, errAt = k) IN
         IF r.res = "false"
         THEN setByLabelsFrom(v, page, fields, labels, value, errAt, k + 1)
         ELSE [res |-> r.res, el |-> r.el, fields |-> r.fields, tried |-> k]

\* --------------------------------------------------------- heuristic scan
\* id + " " + name + " " + className
AttrText(e) == e.id \o <<" ">> \o e.name \o <<" ">> \o e.cls

looksLikeDns(e) == Contains(Lower(AttrText(e)), <<"d","n","s">>)

\* /pri|primary|dns1|pref/i
PrimaryRx(e) ==
    LET t == Lower(AttrText(e)) IN
    \/ Contains(t, <<"p","r","i">>)
    \/ Contains(t, <<"p","r","i","m","a","r","y">>)
    \/ Contains(t, <<"d","n","s","1">>)
    \/ Contains(t, <<"p","r","e","f">>)

\* /sec|secondary|dns2|alt/i
SecondaryRx(e) ==
    LET t == Lower(AttrText(e)) IN
    \/ Contains(t, <<"s","e","c">>)
    \/ Contains(t, <<"s","e","c","o","n","d","a","r","y">>)
    \/ Contains(t, <<"d","n","s","2">>)
    \/ Contains(t, <<"a","l","t">>)

\* Array.prototype.find over the indices in S, in document order (0: none).
FirstIn(S) == IF S = {} THEN 0 ELSE CHOOSE i \in S : \A j \in S : i <= j

\* The three tests, tabulated over the inputs of the model.
DnsLike == { e \in InputKinds : looksLikeDns(e) }
PrimaryNamed == { e \in InputKinds : PrimaryRx(e) }
SecondaryNamed == { e \in InputKinds : SecondaryRx(e) }

\* The candidate inputs: every input of the model is a text input.
Candidates(pg) == { i \in 1..Len(pg.inputs) : pg.inputs[i] \in DnsLike }

\* pri = pick(/pri|primary|dns1|pref/i) || inputs[0]
heuristicPri(pg) ==
    LET c == Candidates(pg)
        m == FirstIn({ i \in c : pg.inputs[i] \in PrimaryNamed })
    IN IF m # 0 THEN m ELSE FirstIn(c)

\* The secondary target as it would be if chosen whether or not dns2 is given.
heuristicSecUnconditional(pg, d2) ==
    LET c == Candidates(pg)
        m == FirstIn({ i \in c : pg.inputs[i] \in SecondaryNamed })
    IN IF m # 0 THEN m ELSE FirstIn(c \ {heuristicPri(pg)})

\* The secondary target as it would be without the el !== pri test.
heuristicSecFirstCandidate(pg, d2) ==
    LET c == Candidates(pg)
        m == FirstIn({ i \in c : pg.inputs[i] \in SecondaryNamed })
    IN IF ~d2 THEN 0
       ELSE IF m # 0 THEN m
       ELSE FirstIn(c)

\* sec = dns2 ? (pick(/sec|secondary|dns2|alt/i)
\*               || inputs.find((el) => el !== pri) || null) : null
heuristicSec(pg, d2) ==
    LET c == Candidates(pg)
        m == FirstIn({ i \in c : pg.inputs[i] \in SecondaryNamed })
    IN IF ~d2 THEN 0
       ELSE IF m # 0 THEN m
       ELSE FirstIn(c \ {heuristicPri(pg)})

\* setDnsByHeuristic(ctx, dns1, dns2); err: ctx.evaluate raises, caught.
setDnsByHeuristic(pg, fs, d2, err) ==
    LET pri == heuristicPri(pg)
        sec == heuristicSec(pg, d2)
        f1 == [fs EXCEPT ![pri] = setVal(fs[pri], "dns1")]
        f2 == IF sec # 0 THEN [f1 EXCEPT ![sec] = setVal(f1[sec], "dns2")] ELSE f1
    IN IF err \/ Candidates(pg) = {}
       THEN [ok1 |-> FALSE, ok2 |-> ~d2, pri |-> 0, sec |-> 0, fields |-> fs]
       ELSE [ok1 |-> TRUE, ok2 |-> (~d2 \/ sec # 0),
             pri |-> pri, sec |-> sec, fields |-> f2]

\* ------------------------------------------------------- ensure manual mode
\* ensureManualDns(frame): sel is what page.$("select") yields, handled what
\* the select-scanning evaluate does ("true", "false", "error"), q the
\* outcomes of the SELECTORS.manualDnsToggles queries, t1 and t2 what the
\* two clickByText calls do.  part_000 does not guard its page.$ calls;
\* neither variant guards the evaluate or clickByText.
ensureManualDns(v, sel, handled, q, t1, t2) ==
    LET toggles == clickFirst(v, q)
        firstErr == \E k \in 1..Len(q) :
                       /\ q[k] = QError
                       /\ \A j \in 1..(k - 1) : q[j] = QNull
    IN IF sel = "error" /\ v = "part_000" THEN "throw"
       ELSE IF sel = "present" /\ handled = "error" THEN "throw"
       ELSE IF sel = "present" /\ handled = "true" THEN "true"
       ELSE IF v = "part_000" /\ firstErr THEN "throw"
       ELSE IF toggles.res = "true" THEN "true"
       ELSE IF clickByText(t1) # "false" THEN clickByText(t1)
       ELSE clickByText(t2)

\* ------------------------------------------------------------ read-back
\* The selector lists readDnsValuesFromFrame builds: the first eleven
\* entries of the SELECTORS lists, the id selectors without the input tag
\* (every element of the model is an input).
readPrimarySels == SubSeq(primaryDns, 1, 11)
readSecondarySels == SubSeq(secondaryDns, 1, 11)

RECURSIVE pick(_, _, _, _)
\* pick(selArr): the value of the first selector's first match, else "".
pick(page, fields, sels, k) ==
    IF k > Len(sels) THEN <<>>
    ELSE IF QueryFrame(page, sels[k]) # 0
         THEN fields[QueryFrame(page, sels[k])].val
    ELSE pick(page, fields, sels, k + 1)

\* readDnsValuesFromFrame(frame); err: frame.evaluate raises, caught.
readDnsValuesFromFrame(page, fields, err) ==
    IF err THEN [primary |-> <<>>, secondary |-> <<>>]
    ELSE [primary |-> pick(page, fields, readPrimarySels, 1),
          secondary |-> pick(page, fields, readSecondarySels, 1)]

\* ------------------------------------------------------------- contexts
\* The page states a selector cascade of n selectors is run against: at
\* most one selector (p) yields an element, its own, and at most one (e)
\* makes the engine raise.
CtxPatterns(n) ==
    { [i \in 1..n |-> IF i = p THEN i ELSE IF i = e THEN QError ELSE QNull] :
        p \in 0..n, e \in 0..n }

\* Every sequence of query outcomes over up to MaxSelLen selectors, the
\* i-th selector yielding its own element i, null, or an error.
RECURSIVE CtxOfLen(_)
CtxOfLen(n) ==
    IF n = 0 THEN { <<>> }
    ELSE { Append(q, o) : q \in CtxOfLen(n - 1), o \in {n, QNull, QError} }

AllContexts == UNION { CtxOfLen(n) : n \in 1..MaxSelLen }

\* ------------------------------------------------------------------ state
VARIABLES
    pc,              \* the statement the run is at
    variant,         \* which source file runs: "index" or "part_000"
    debug,           \* argv.debug
    dns2req,         \* whether argv.dns2 is non-empty
    browserOpen,     \* the browser session is open
    exitCode,        \* process.exitCode (0: unset)
    nSuccess,        \* success-glyph lines written to standard output
    nFailure,        \* failure-glyph lines written to standard error
    cause,           \* the error that aborted the run ("none": none)
    fatal,           \* the fatal condition established so far ("none": none)
    afterFatal,      \* a workflow step ran after a fatal condition
    dialogHandler,   \* page.on('dialog') is registered
    newDocOverride,  \* evaluateOnNewDocument's override is registered
    gotoIssued,      \* page.goto was called
    navCaller,       \* who awaits navigateToDns: "main" or "verify"
    navLog,          \* the transitions of the current navigateToDns call
    pathReached,     \* navigateToDns's result in main
    page,            \* the content frame's document
    fields,          \* the state of its inputs
    applied,         \* the form as it was when saveChanges returned
    ok1,             \* setDnsValues: primary field set
    ok2,             \* setDnsValues: secondary field set
    tierLog,         \* setDnsValues: the calls made so far and their results
    saveCtx,         \* the context saveChanges runs in: "frame" or "page"
    saved,           \* saveChanges's result
    saveLog,         \* saveChanges: the strategies tried so far
    txt,             \* saveChanges: the next word of the text list
    poll,            \* verifyDnsApplied: the loop counter i
    verified,        \* verifyDnsApplied's result
    renavs,          \* navigateToDns calls made by verifyDnsApplied
    lastRead,        \* verifyDnsApplied: the values its latest round read
    call             \* a stand-alone cascade call and its result

params == <<variant, debug, dns2req>>
outs == <<browserOpen, exitCode, nSuccess, nFailure>>
setup == <<dialogHandler, newDocOverride, gotoIssued>>
navv == <<navCaller, navLog, pathReached>>
form == <<page, fields, applied>>
sdv == <<ok1, ok2, tierLog>>
sav == <<saveCtx, saved, saveLog, txt>>
ver == <<poll, verified, renavs, lastRead>>
vars == <<pc, params, outs, cause, fatal, afterFatal, setup, navv, form,
          sdv, sav, ver, call>>

Variants == {"index", "part_000"}

NoCall == [fn |-> "none"]

\* The latest round of verifyDnsApplied read nothing.
NoRead == [primary |-> <<"unread">>, secondary |-> <<"unread">>]

\* The locals of the workflow's functions, before they run.
LocalsInit ==
    /\ navCaller = "none" /\ navLog = <<>> /\ pathReached = "unset"
    /\ page = NoPage /\ fields = <<>> /\ applied = <<>>
    /\ ok1 = FALSE /\ ok2 = FALSE /\ tierLog = <<>>
    /\ saveCtx = "none" /\ saved = FALSE /\ saveLog = <<>> /\ txt = 1
    /\ poll = 0 /\ verified = FALSE /\ renavs = 0 /\ lastRead = NoRead

\* The state once puppeteer.launch has resolved.
Init ==
    /\ pc = "newPage"
    /\ variant \in Variants /\ debug \in BOOLEAN /\ dns2req \in BOOLEAN
    /\ browserOpen = TRUE /\ exitCode = 0 /\ nSuccess = 0 /\ nFailure = 0
    /\ cause = "none" /\ fatal = "none" /\ afterFatal = FALSE
    /\ dialogHandler = FALSE /\ newDocOverride = FALSE /\ gotoIssued = FALSE
    /\ LocalsInit
    /\ call = NoCall

\* An error raised inside the try block: control passes to the catch clause.
Abort(c) == pc' = "catch" /\ cause' = c

\* A workflow step acts on the page: it counts as a step after a fatal
\* condition when one is already established.
Acts == afterFatal' = (afterFatal \/ fatal # "none")


\* ---------------------------------------------------------- session setup
\* browser.newPage(), awaited before the try block: an error here is an
\* unhandled rejection of the main function.
NewPage ==
    /\ pc = "newPage"
    /\ \E err \in BOOLEAN :
          /\ pc' = IF err THEN "rejected" ELSE "onDialog"
          /\ cause' = IF err THEN "setup:newPage" ELSE cause
    /\ UNCHANGED <<params, outs, fatal, afterFatal, setup, navv, form, sdv,
                   sav, ver, call>>

\* page.on('dialog', ...): registers the handler, synchronously.
OnDialog ==
    /\ pc = "onDialog"
    /\ dialogHandler' = TRUE
    /\ pc' = "evalOnNewDoc"
    /\ UNCHANGED <<params, outs, cause, fatal, afterFatal, newDocOverride,
                   gotoIssued, navv, form, sdv, sav, ver, call>>

\* await page.evaluateOnNewDocument(...), then page.setDefaultTimeout: also
\* before the try block.
EvalOnNewDoc ==
    /\ pc = "evalOnNewDoc"
    /\ \E err \in BOOLEAN :
          /\ pc' = IF err THEN "rejected" ELSE "goto"
          /\ cause' = IF err THEN "setup:evaluateOnNewDocument" ELSE cause
          /\ newDocOverride' = ~err
    /\ UNCHANGED <<params, outs, fatal, afterFatal, dialogHandler, gotoIssued,
                   navv, form, sdv, sav, ver, call>>

\* ------------------------------------------------------------------ login
\* await page.goto(url): the first statement of the try block.
Goto ==
    /\ pc = "goto"
    /\ gotoIssued' = TRUE
    /\ \E err \in BOOLEAN :
          IF err THEN Abort("engine:goto")
          ELSE pc' = "typeUser" /\ UNCHANGED cause
    /\ UNCHANGED <<params, outs, fatal, afterFatal, dialogHandler,
                   newDocOverride, navv, form, sdv, sav, ver, call>>

\* The number of selectors of SELECTORS.username, .password, .loginButtons.
NUsername == 7
NPassword == 5
NLoginButtons == 7

\* Why a waitAndTypeFirst call threw: a query raised, or el.type did.
ThrowCause(r) == IF r.el = 0 THEN "engine:query" ELSE "engine:type"

\* usernameTyped = await waitAndTypeFirst(page, SELECTORS.username, user)
TypeUser ==
    /\ pc = "typeUser"
    /\ \E q \in CtxPatterns(NUsername), typeErr \in BOOLEAN :
          LET r == waitAndTypeFirst(variant, q, typeErr) IN
          IF r.res = "throw" THEN Abort(ThrowCause(r))
          ELSE pc' = "typePass" /\ UNCHANGED cause
    /\ UNCHANGED <<params, outs, fatal, afterFatal, setup, navv, form, sdv,
                   sav, ver, call>>

\* passwordTyped = await waitAndTypeFirst(page, SELECTORS.password, pass),
\* and the check that throws when no password field was found.
TypePass ==
    /\ pc = "typePass"
    /\ \E q \in CtxPatterns(NPassword), typeErr \in BOOLEAN :
          LET r == waitAndTypeFirst(variant, q, typeErr) IN
          IF r.res = "throw" THEN Abort(ThrowCause(r)) /\ UNCHANGED fatal
          ELSE IF r.res = "false"
               THEN Abort("password") /\ fatal' = "password"
          ELSE pc' = "clickLogin" /\ UNCHANGED <<cause, fatal>>
    /\ UNCHANGED <<params, outs, afterFatal, setup, navv, form, sdv, sav,
                   ver, call>>

\* The outcomes of one clickByText evaluate.
TextOutcomes == {"interactive", "any", "none", "error"}

\* The page states a chain of n clickByText calls is run against: at most
\* one of the texts is present or makes the evaluate raise.
TextEnvs(n) ==
    { [i \in 1..n |-> IF i = k THEN o ELSE "none"] :
        k \in 0..n, o \in TextOutcomes }

RECURSIVE clickByTextChain(_, _)
\* clickByText(a) || clickByText(b) || ... from the k-th call on.
clickByTextChain(ts, k) ==
    IF k > Len(ts) THEN "false"
    ELSE IF clickByText(ts[k]) = "false" THEN clickByTextChain(ts, k + 1)
    ELSE clickByText(ts[k])

\* The number of login button texts tried after the selector cascade.
NLoginTexts == 5

\* clickedLogin = clickFirst(...) || clickByText("Log In") || ...
loginClick(v, q, ts) ==
    IF clickFirst(v, q).res = "true" THEN "true" ELSE clickByTextChain(ts, 1)

ClickLogin ==
    /\ pc = "clickLogin"
    /\ \E q \in CtxPatterns(NLoginButtons), ts \in TextEnvs(NLoginTexts) :
          IF loginClick(variant, q, ts) = "throw"
          THEN Abort("engine:clickByText")
          ELSE pc' = "waitNav" /\ UNCHANGED cause
    /\ UNCHANGED <<params, outs, fatal, afterFatal, setup, navv, form, sdv,
                   sav, ver, call>>

\* await page.waitForNavigation(...).catch(() => {}), sleep, and the call
\* of navigateToDns(page, debug).
WaitNav ==
    /\ pc = "waitNav"
    /\ pc' = "nav_top"
    /\ navCaller' = "main"
    /\ navLog' = <<>>
    /\ UNCHANGED <<params, outs, cause, fatal, afterFatal, setup, pathReached,
                   form, sdv, sav, ver, call>>

\* ------------------------------------------------------------- navigation
\* One menu transition of navigateToDns: el is what page.$(fixed id) yields
\* ("present", "absent", or "error", caught as null), o what clickByText
\* does when the fixed element is missing.
navStep(el, o) ==
    IF el = "present" THEN "id"
    ELSE IF clickByText(o) = "true" THEN "text"
    ELSE IF clickByText(o) = "false" THEN "null"
    ELSE "throw"

ElOutcomes == {"present", "absent", "error"}

\* navigateToDns returns r to its caller: main stores it, verifyDnsApplied
\* ignores it and goes on to its next poll.
NavReturn(r) ==
    IF navCaller = "main"
    THEN /\ pc' = "afterNav"
         /\ pathReached' = r
         /\ fatal' = IF r = "null" THEN "path" ELSE fatal
         /\ UNCHANGED <<cause, poll>>
    ELSE /\ pc' = "verify_poll"
         /\ poll' = poll + 1
         /\ UNCHANGED <<cause, pathReached, fatal>>

\* navigateToDns throws: main's try block catches it, verifyDnsApplied
\* swallows it.
NavThrow ==
    IF navCaller = "main"
    THEN Abort("engine:clickByText") /\ UNCHANGED <<pathReached, fatal, poll>>
    ELSE /\ pc' = "verify_poll"
         /\ poll' = poll + 1
         /\ UNCHANGED <<cause, pathReached, fatal>>

\* The transitions are logged for the call main makes: the step, what it
\* came to, and what the query for the fixed identifier (for the last step,
\* the title check) gave.
NavLogged(e) == IF navCaller = "main" THEN Append(navLog, e) ELSE navLog

NavTransition(cur, name, next) ==
    /\ pc = cur
    /\ Acts
    /\ \E el \in ElOutcomes, o \in TextOutcomes :
          LET r == navStep(el, o) IN
          /\ navLog' = NavLogged(<<name, r, el>>)
          /\ IF r = "throw" THEN NavThrow
             ELSE IF r = "null" THEN NavReturn("null")
             ELSE pc' = next /\ UNCHANGED <<cause, pathReached, fatal, poll>>
    /\ UNCHANGED <<params, outs, setup, navCaller, form, sdv, sav, verified,
                   renavs, lastRead, call>>

\* #addconfig, else "Advanced Configuration"
NavTop == NavTransition("nav_top", "top", "nav_sub")

\* #lanconfig, else "LAN"
NavSub == NavTransition("nav_sub", "sub", "nav_leaf")

\* #landhcp, else "DHCP Server"
NavLeaf == NavTransition("nav_leaf", "leaf", "nav_title")

\* The result of navigateToDns after the three clicks: frameFound is
\* getContentFrame's result, title what the title evaluate finds ("match",
\* "nomatch", or "error", caught as false).
\* navigateToDns as it would be if a missing title meant "not reached".
navResultTitleRequired(frameFound, title) ==
    IF frameFound /\ title = "match" THEN "iframe-dhcp" ELSE "null"

navResult(frameFound, title) ==
    IF ~frameFound THEN "null"
    ELSE IF title = "match" THEN "iframe-dhcp"
    ELSE "iframe-dhcp-no-title"

TitleOutcomes == {"match", "nomatch", "error"}

NavTitle ==
    /\ pc = "nav_title"
    /\ Acts
    /\ \E fq \in FrameEnvs, title \in TitleOutcomes :
          LET found == getContentFrame(fq)
              r == navResult(found, title)
          IN
          /\ navLog' = NavLogged(<<"title", r, IF found THEN title ELSE "noframe">>)
          /\ NavReturn(r)
    /\ UNCHANGED <<params, outs, setup, navCaller, form, sdv, sav, verified,
                   renavs, lastRead, call>>

\* if (!pathReached) throw ...; the debug output that follows touches no
\* state, and neither the result nor the call's log is read again.
AfterNav ==
    /\ pc = "afterNav"
    /\ IF pathReached = "null"
       THEN Abort("path") /\ UNCHANGED navv
       ELSE /\ pc' = "sdv_frame"
            /\ navCaller' = "none" /\ navLog' = <<>> /\ pathReached' = "unset"
            /\ UNCHANGED cause
    /\ UNCHANGED <<params, outs, fatal, afterFatal, setup, form, sdv, sav,
                   ver, call>>


\* ------------------------------------------------------------ setDnsValues
\* const frame = await getContentFrame(page); if (!frame) throw ...
\* The document behind the frame is the form the tiers work on.
SdvFrame ==
    /\ pc = "sdv_frame"
    /\ \E fq \in FrameEnvs :
          IF getContentFrame(fq)
          THEN /\ pc' = "sdv_manual"
               /\ UNCHANGED cause
          ELSE Abort("frame")
    /\ tierLog' = <<>>
    /\ UNCHANGED <<params, outs, fatal, afterFatal, setup, navv, form, ok1, ok2,
                   sav, ver, call>>

\* The number of selectors of SELECTORS.manualDnsToggles.
NManualToggles == 5

\* What ensureManualDns can do on some page: "true", "false" or "throw".
EnsureResults(v) ==
    { ensureManualDns(v, sel, handled, q, ts[1], ts[2]) :
        sel \in ElOutcomes, handled \in {"true", "false", "error"},
        q \in CtxPatterns(NManualToggles), ts \in TextEnvs(2) }

\* await ensureManualDns(frame).catch(() => {}); await sleep(300).  The form
\* found in the frame, one of the documents PS, is drawn here, when the
\* tiers are about to read it.
SdvManualOn(PS) ==
    /\ pc = "sdv_manual"
    /\ Acts
    /\ \E res \in EnsureResults(variant), p \in PS :
          /\ tierLog' = << <<"manual", res>> >>
          /\ page' = p
          /\ fields' = InitialFields(p)
    /\ pc' = "sdv_t1pri"
    /\ UNCHANGED <<params, outs, cause, fatal, setup, navv, applied, ok1, ok2,
                   sav, ver, call>>

\* A whole run meets the firmware's own documents.
SdvManual == SdvManualOn(FirmwarePages)

\* The selectors of a list that carry the case-insensitivity flag, which
\* an engine may not support.
IFlagSelectors(sels) == { k \in 1..Len(sels) : sels[k].op = "has" }

\* The queries of a cascade that raise: none, the first one, or every one
\* with the case-insensitivity flag.
QueryErrs(sels) == { {}, {1}, IFlagSelectors(sels) }

\* The outcomes of the queries of a cascade on the form.
FrameQueries(pg, sels, errs) ==
    [k \in 1..Len(sels) |->
        IF k \in errs THEN QError ELSE QueryFrame(pg, sels[k])]

\* The statement reached after each tier: the conditions of setDnsValues.
afterT3(o1, o2) ==
    IF debug /\ (~o1 \/ (dns2req /\ ~o2)) THEN "sdv_debug" ELSE "sdv_check"

afterT2Sec(o1, o2) ==
    IF ~o1 \/ (dns2req /\ ~o2) THEN "sdv_t3" ELSE afterT3(o1, o2)

afterT2Pri(o1, o2) ==
    IF ~o2 /\ dns2req THEN "sdv_t2sec" ELSE afterT2Sec(o1, o2)

\* Tier 2 entered for the primary field whatever tier 1 did.
afterT1SecAlwaysLabels(o1, o2) == "sdv_t2pri"

afterT1Sec(o1, o2) ==
    IF ~o1 THEN "sdv_t2pri" ELSE afterT2Pri(o1, o2)

afterT1Pri(o1) ==
    IF dns2req THEN "sdv_t1sec" ELSE afterT1Sec(o1, TRUE)

\* let ok1 = await waitAndTypeFirst(frame, SELECTORS.primaryDns, dns1);
\* ok2 is true at once when no secondary is requested.
SdvT1Pri ==
    /\ pc = "sdv_t1pri"
    /\ Acts
    /\ \E errs \in QueryErrs(primaryDns), clickOk \in BOOLEAN, typeErr \in BOOLEAN :
          LET r == waitAndTypeFirst(variant,
                       FrameQueries(page, primaryDns, errs), typeErr) IN
          /\ tierLog' = Append(tierLog, <<"t1.pri", r.res>>)
          /\ IF r.res = "throw"
             THEN Abort(ThrowCause(r)) /\ UNCHANGED <<fields, ok1, ok2>>
             ELSE /\ ok1' = (r.res = "true")
                  /\ ok2' = IF dns2req THEN ok2 ELSE TRUE
                  /\ fields' = IF r.res = "true"
                               THEN [fields EXCEPT ![r.el] =
                                        TypeInto(fields[r.el], "dns1", clickOk)]
                               ELSE fields
                  /\ pc' = afterT1Pri(r.res = "true")
                  /\ UNCHANGED cause
    /\ UNCHANGED <<params, outs, fatal, setup, navv, page, applied, sav, ver,
                   call>>

\* let ok2 = dns2 ? await waitAndTypeFirst(frame, SELECTORS.secondaryDns, dns2) : true
SdvT1Sec ==
    /\ pc = "sdv_t1sec"
    /\ Acts
    /\ \E errs \in QueryErrs(secondaryDns), clickOk \in BOOLEAN, typeErr \in BOOLEAN :
          LET r == waitAndTypeFirst(variant,
                       FrameQueries(page, secondaryDns, errs), typeErr) IN
          /\ tierLog' = Append(tierLog, <<"t1.sec", r.res>>)
          /\ IF r.res = "throw"
             THEN Abort(ThrowCause(r)) /\ UNCHANGED <<fields, ok2>>
             ELSE /\ ok2' = (r.res = "true")
                  /\ fields' = IF r.res = "true"
                               THEN [fields EXCEPT ![r.el] =
                                        TypeInto(fields[r.el], "dns2", clickOk)]
                               ELSE fields
                  /\ pc' = afterT1Sec(ok1, r.res = "true")
                  /\ UNCHANGED cause
    /\ UNCHANGED <<params, outs, fatal, setup, navv, page, applied, ok1, sav,
                   ver, call>>

\* if (!ok1) ok1 = setInputByLabel(...) || ... (four label texts)
SdvT2Pri ==
    /\ pc = "sdv_t2pri"
    /\ Acts
    /\ \E errAt \in 0..Len(PrimaryLabels) :
          LET r == setByLabelsFrom(variant, page, fields, PrimaryLabels,
                                   "dns1", errAt, 1) IN
          /\ tierLog' = Append(tierLog, <<"t2.pri", r.res>>)
          /\ IF r.res = "throw"
             THEN Abort("engine:setInputByLabel") /\ UNCHANGED <<fields, ok1>>
             ELSE /\ ok1' = (r.res = "true")
                  /\ fields' = r.fields
                  /\ pc' = afterT2Pri(r.res = "true", ok2)
                  /\ UNCHANGED cause
    /\ UNCHANGED <<params, outs, fatal, setup, navv, page, applied, ok2, sav,
                   ver, call>>

\* if (!ok2 && dns2) ok2 = setInputByLabel(...) || ... (four label texts)
SdvT2Sec ==
    /\ pc = "sdv_t2sec"
    /\ Acts
    /\ \E errAt \in 0..Len(SecondaryLabels) :
          LET r == setByLabelsFrom(variant, page, fields, SecondaryLabels,
                                   "dns2", errAt, 1) IN
          /\ tierLog' = Append(tierLog, <<"t2.sec", r.res>>)
          /\ IF r.res = "throw"
             THEN Abort("engine:setInputByLabel") /\ UNCHANGED <<fields, ok2>>
             ELSE /\ ok2' = (r.res = "true")
                  /\ fields' = r.fields
                  /\ pc' = afterT2Sec(ok1, r.res = "true")
                  /\ UNCHANGED cause
    /\ UNCHANGED <<params, outs, fatal, setup, navv, page, applied, ok1, sav,
                   ver, call>>

\* if (!ok1 || (dns2 && !ok2)) { h = await setDnsByHeuristic(...);
\* ok1 = ok1 || h.ok1; ok2 = ok2 || h.ok2 }.  With the last tier done the
\* primary field is resolved or not.
SdvT3 ==
    /\ pc = "sdv_t3"
    /\ Acts
    /\ \E err \in BOOLEAN :
          LET h == setDnsByHeuristic(page, fields, dns2req, err) IN
          /\ tierLog' = Append(tierLog, <<"t3", IF h.ok1 THEN "true" ELSE "false">>)
          /\ ok1' = (ok1 \/ h.ok1)
          /\ ok2' = (ok2 \/ h.ok2)
          /\ fields' = h.fields
          /\ pc' = afterT3(ok1 \/ h.ok1, ok2 \/ h.ok2)
          /\ fatal' = IF ~(ok1 \/ h.ok1) THEN "primary" ELSE fatal
    /\ UNCHANGED <<params, outs, cause, setup, navv, page, applied, sav, ver,
                   call>>

\* if (debug && (!ok1 || (dns2 && !ok2))) { await frame.evaluate(...) }:
\* the dump of the inputs, not guarded.
SdvDebug ==
    /\ pc = "sdv_debug"
    /\ \E err \in BOOLEAN :
          IF err THEN Abort("engine:debugDump")
          ELSE pc' = "sdv_check" /\ UNCHANGED cause
    /\ UNCHANGED <<params, outs, fatal, afterFatal, setup, navv, form, sdv,
                   sav, ver, call>>

\* if (!ok1) throw new Error("Could not locate the Primary DNS field ...")
SdvCheck ==
    /\ pc = "sdv_check"
    /\ IF ~ok1 THEN Abort("primary")
       ELSE pc' = "main_frame" /\ UNCHANGED cause
    /\ UNCHANGED <<params, outs, fatal, afterFatal, setup, navv, form, sdv,
                   sav, ver, call>>


\* ------------------------------------------------------------- saveChanges
\* saveChanges starting at the fixed identifier, without the override.
saveChangesEntryNoOverride == "sc_fixed"

\* The first statement of saveChanges: the evaluate that overrides
\* alert/confirm/prompt in the target context.
saveChangesEntry == "sc_override"

\* The words clickByTextInContext is tried with, in order.
SaveTexts == <<"Apply", "Save", "Guardar", "Aplicar", "Submit", "OK">>

\* The number of selectors of SELECTORS.saveButtons.
NSaveButtons == 6

\* saveChanges with the selector cascade left out after a miss of the
\* fixed identifier.
scNextSkipCascade(cur, hit, k) ==
    IF cur = "sc_override" THEN "sc_fixed"
    ELSE IF hit THEN "ret_true"
    ELSE IF cur = "sc_fixed" THEN "sc_text"
    ELSE IF cur = "sc_text" /\ k < 6 THEN "sc_text"
    ELSE IF cur = "sc_text" THEN "sc_apply"
    ELSE "ret_false"

\* Where saveChanges goes after the statement cur: hit is whether the
\* strategy at cur found its control (or, for the last one, whether the
\* evaluate returned true), k the index of the word just tried.
scNext(cur, hit, k) ==
    IF cur = "sc_override" THEN "sc_fixed"
    ELSE IF hit THEN "ret_true"
    ELSE IF cur = "sc_fixed" THEN "sc_cascade"
    ELSE IF cur = "sc_cascade" THEN "sc_text"
    ELSE IF cur = "sc_text" /\ k < Len(SaveTexts) THEN "sc_text"
    ELSE IF cur = "sc_text" THEN "sc_apply"
    ELSE "ret_false"

\* const contentFrame = await getContentFrame(page); the call of
\* saveChanges(contentFrame || page).  The locals of setDnsValues are gone.
\* saveChanges as it would be called if only the content frame would do.
saveTargetFrameOnly(frameFound) == IF frameFound THEN "frame" ELSE "none"

\* contentFrame || page: the context main hands to saveChanges.
saveTarget(frameFound) == IF frameFound THEN "frame" ELSE "page"

MainFrame ==
    /\ pc = "main_frame"
    /\ \E fq \in FrameEnvs :
          saveCtx' = saveTarget(getContentFrame(fq))
    /\ pc' = saveChangesEntry
    /\ saveLog' = <<>> /\ txt' = 1
    /\ ok1' = FALSE /\ ok2' = FALSE /\ tierLog' = <<>>
    /\ UNCHANGED <<params, outs, cause, fatal, afterFatal, setup, navv, form,
                   saved, ver, call>>

\* saveChanges returns s; main sleeps and calls verifyDnsApplied with
\* retries = 4.  A false result is the no-save-control condition.
ScReturn(s) ==
    /\ pc' = "verify_poll"
    /\ saved' = s
    /\ applied' = fields
    /\ fatal' = IF s THEN fatal ELSE "nosave"
    /\ poll' = 0 /\ verified' = FALSE /\ renavs' = 0 /\ lastRead' = NoRead

ScGo(next) ==
    IF next = "ret_true" THEN ScReturn(TRUE)
    ELSE IF next = "ret_false" THEN ScReturn(FALSE)
    ELSE pc' = next /\ UNCHANGED <<saved, applied, fatal, ver>>

\* try { await ctx.evaluate(override) } catch {}
ScOverride ==
    /\ pc = "sc_override"
    /\ Acts
    /\ \E err \in BOOLEAN :
          saveLog' = Append(saveLog, <<"override", IF err THEN "error" ELSE "ok">>)
    /\ ScGo(scNext("sc_override", FALSE, 0))
    /\ UNCHANGED <<params, outs, cause, setup, navv, page, fields, sdv,
                   saveCtx, txt, call>>

\* applyBtn = ctx.$("#btnApply_ex") (an error gives no button); a button is
\* clicked (errors swallowed) and saveChanges returns true.
ScFixed ==
    /\ pc = "sc_fixed"
    /\ Acts
    /\ \E el \in ElOutcomes :
          /\ saveLog' = Append(saveLog,
                 <<"fixed", IF el = "present" THEN "click" ELSE "miss">>)
          /\ ScGo(scNext("sc_fixed", el = "present", 0))
    /\ UNCHANGED <<params, outs, cause, setup, navv, page, fields, sdv,
                   saveCtx, txt, call>>

\* if (await clickFirst(ctx, SELECTORS.saveButtons)) return true
ScCascade ==
    /\ pc = "sc_cascade"
    /\ Acts
    /\ \E q \in CtxPatterns(NSaveButtons) :
          LET r == clickFirst(variant, q) IN
          /\ saveLog' = Append(saveLog,
                 <<"cascade", IF r.res = "true" THEN "click" ELSE "miss">>)
          /\ ScGo(scNext("sc_cascade", r.res = "true", 0))
    /\ UNCHANGED <<params, outs, cause, setup, navv, page, fields, sdv,
                   saveCtx, txt, call>>

\* if (await clickByTextInContext(ctx, SaveTexts[txt])) return true
ScText ==
    /\ pc = "sc_text"
    /\ Acts
    /\ \E o \in {"visible", "none", "error"} :
          LET hit == clickByTextInContext(o) = "true" IN
          /\ saveLog' = Append(saveLog,
                 <<SaveTexts[txt], IF hit THEN "click" ELSE "miss">>)
          /\ ScGo(scNext("sc_text", hit, txt))
    /\ txt' = txt + 1
    /\ UNCHANGED <<params, outs, cause, setup, navv, page, fields, sdv,
                   saveCtx, call>>

\* What the last-resort evaluate does: "ok" (ApplyConfig exists, is called
\* and returns), "nofn" (no such function), "rejectBefore" (the evaluate
\* raises without running), "throwsInside" (ApplyConfig is called and
\* throws).  Only "ok" yields true, in either variant.
ApplyOutcomes == {"ok", "nofn", "rejectBefore", "throwsInside"}

applyConfigInvoked(o) == o \in {"ok", "throwsInside"}

applyConfigResult(o) == o = "ok"

ScApply ==
    /\ pc = "sc_apply"
    /\ Acts
    /\ \E o \in ApplyOutcomes :
          /\ saveLog' = Append(saveLog, <<"ApplyConfig", o>>)
          /\ ScGo(scNext("sc_apply", applyConfigResult(o), 0))
    /\ UNCHANGED <<params, outs, cause, setup, navv, page, fields, sdv,
                   saveCtx, txt, call>>

\* -------------------------------------------------------- verifyDnsApplied
\* retries, as main passes it.
Retries == 4

\* What the router has done to the form by the time it is read: nothing,
\* re-rendered it as it was before the edits, or re-rendered it with the
\* values that were in it when saveChanges returned.
Renders == {"keep", "revert", "applied"}

Rendered(rr) ==
    IF rr = "keep" THEN fields
    ELSE IF rr = "revert" THEN InitialFields(page)
    ELSE applied

\* The comparison as it would be with the secondary value always required.
valuesMatchBoth(vals) ==
    vals.primary = <<"dns1">> /\ vals.secondary = <<"dns2">>

\* ok1 && ok2 of one poll.
valuesMatch(vals) ==
    /\ vals.primary = <<"dns1">>
    /\ (~dns2req \/ vals.secondary = <<"dns2">>)

\* Re-navigation on every round from the one before the last on.
renavigatesLate(i) == i >= Retries - 2

\* Whether the poll with counter i calls navigateToDns again.
renavigates(i) == i = Retries - 2

\* verifyDnsApplied returns r; what follows in main up to the check of
\* saved raises nothing.
VerifyReturn(r) ==
    /\ pc' = "checkSaved"
    /\ verified' = r
    /\ UNCHANGED <<poll, renavs, navCaller>>

\* What follows a read-back that did not match: the sleep and, on the
\* round before the last, the call of navigateToDns.
VerifyRetry ==
    IF renavigates(poll)
    THEN /\ pc' = "nav_top"
         /\ navCaller' = "verify"
         /\ renavs' = renavs + 1
         /\ UNCHANGED <<poll, verified>>
    ELSE /\ pc' = "verify_poll"
         /\ poll' = poll + 1
         /\ UNCHANGED <<verified, renavs, navCaller>>

\* One round of the loop: the loop test, getContentFrame, the read-back,
\* the comparison, the sleep and, on the round before the last, the call of
\* navigateToDns.  The locals of saveChanges are gone.
VerifyPoll ==
    /\ pc = "verify_poll"
    /\ IF poll >= Retries
       THEN VerifyReturn(FALSE) /\ lastRead' = NoRead
            /\ UNCHANGED <<afterFatal, fields>>
       ELSE /\ Acts
            /\ \E fq \in FrameEnvs, rr \in Renders, readErr \in BOOLEAN :
                 IF ~getContentFrame(fq)
                 THEN VerifyReturn(FALSE) /\ lastRead' = NoRead
                      /\ UNCHANGED fields
                 ELSE LET vals == readDnsValuesFromFrame(page, Rendered(rr), readErr)
                      IN  /\ fields' = Rendered(rr)
                          /\ lastRead' = vals
                          /\ IF valuesMatch(vals) THEN VerifyReturn(TRUE)
                             ELSE VerifyRetry
    /\ saveCtx' = "none" /\ saveLog' = <<>> /\ txt' = 1
    /\ UNCHANGED <<params, outs, cause, fatal, setup, navLog, pathReached,
                   page, applied, sdv, saved, call>>

\* ------------------------------------------------------------ end of main
\* The check as it would be if the verification result decided the outcome.
saveCheckFailsOnVerify == ~saved \/ ~verified

\* The condition of "if (!saved) throw".
saveCheckFails == ~saved

\* The debug output after verification (guarded), then
\* if (!saved) throw new Error("Could not find a Save/Apply button.")
CheckSaved ==
    /\ pc = "checkSaved"
    /\ IF saveCheckFails THEN Abort("nosave")
       ELSE pc' = "success" /\ UNCHANGED cause
    /\ UNCHANGED <<params, outs, fatal, afterFatal, setup, navv, form, sdv,
                   sav, ver, call>>

\* The locals of the workflow's functions go out of scope.
LocalsReset ==
    /\ navCaller' = "none" /\ navLog' = <<>> /\ pathReached' = "unset"
    /\ page' = NoPage /\ fields' = <<>> /\ applied' = <<>>
    /\ ok1' = FALSE /\ ok2' = FALSE /\ tierLog' = <<>>
    /\ saveCtx' = "none" /\ saved' = FALSE /\ saveLog' = <<>> /\ txt' = 1
    /\ poll' = 0 /\ verified' = FALSE /\ renavs' = 0 /\ lastRead' = NoRead

\* await sleep(600); console.log("✔ DNS updated to ...")
Success ==
    /\ pc = "success"
    /\ nSuccess' = nSuccess + 1
    /\ pc' = "finally"
    /\ LocalsReset
    /\ UNCHANGED <<params, browserOpen, exitCode, nFailure, cause, fatal,
                   afterFatal, setup, call>>

\* catch (err): console.error("✖ Failed:", ...), the screenshot in debug
\* mode (guarded), process.exitCode = 1.
Catch ==
    /\ pc = "catch"
    /\ nFailure' = nFailure + 1
    /\ exitCode' = 1
    /\ pc' = "finally"
    /\ LocalsReset
    /\ UNCHANGED <<params, browserOpen, nSuccess, cause, fatal, afterFatal,
                   setup, call>>

\* finally { await browser.close() }
Finally ==
    /\ pc = "finally"
    /\ browserOpen' = FALSE
    /\ pc' = "done"
    /\ UNCHANGED <<params, exitCode, nSuccess, nFailure, cause, fatal,
                   afterFatal, setup, navv, form, sdv, sav, ver, call>>

\* The run is over: main has returned, or has rejected before its try block.
Terminal == pc \in {"done", "rejected"}

Next ==
    \/ NewPage \/ OnDialog \/ EvalOnNewDoc
    \/ Goto \/ TypeUser \/ TypePass \/ ClickLogin \/ WaitNav
    \/ NavTop \/ NavSub \/ NavLeaf \/ NavTitle \/ AfterNav
    \/ SdvFrame \/ SdvManual \/ SdvT1Pri \/ SdvT1Sec \/ SdvT2Pri \/ SdvT2Sec
    \/ SdvT3 \/ SdvDebug \/ SdvCheck
    \/ MainFrame \/ ScOverride \/ ScFixed \/ ScCascade \/ ScText \/ ScApply
    \/ VerifyPoll \/ CheckSaved \/ Success \/ Catch \/ Finally

Spec == Init /\ [][Next]_vars

\* ------------------------------------------ setDnsValues on its own
\* The state of a run at the call of setDnsValues.
InitResolver ==
    /\ pc = "sdv_frame"
    /\ variant \in Variants /\ debug \in BOOLEAN /\ dns2req \in BOOLEAN
    /\ browserOpen = TRUE /\ exitCode = 0 /\ nSuccess = 0 /\ nFailure = 0
    /\ cause = "none" /\ fatal = "none" /\ afterFatal = FALSE
    /\ dialogHandler = TRUE /\ newDocOverride = TRUE /\ gotoIssued = TRUE
    /\ LocalsInit
    /\ call = NoCall

\* setDnsValues meets any document.
ResolverManual == SdvManualOn(Pages)

\* setDnsValues up to its return or its throw.
NextResolver ==
    \/ SdvFrame \/ ResolverManual \/ SdvT1Pri \/ SdvT1Sec \/ SdvT2Pri
    \/ SdvT2Sec \/ SdvT3 \/ SdvDebug \/ SdvCheck

SpecResolver == InitResolver /\ [][NextResolver]_vars

\* ------------------------------------------- the cascades on their own
NoOut == [res |-> "none", el |-> 0, sel |-> 0, queried |-> 0]

\* A call of clickFirst or waitAndTypeFirst about to be made, on any
\* selector list of up to MaxSelLen selectors and any page.
InitCascade ==
    /\ pc = "cascade"
    /\ variant \in Variants /\ debug = FALSE /\ dns2req = FALSE
    /\ browserOpen = TRUE /\ exitCode = 0 /\ nSuccess = 0 /\ nFailure = 0
    /\ cause = "none" /\ fatal = "none" /\ afterFatal = FALSE
    /\ dialogHandler = FALSE /\ newDocOverride = FALSE /\ gotoIssued = FALSE
    /\ LocalsInit
    /\ call \in { c \in [fn : {"clickFirst", "waitAndTypeFirst"},
                        q : AllContexts, typeErr : BOOLEAN, out : {NoOut}] :
                    c.fn = "clickFirst" => ~c.typeErr }

RunClickFirst ==
    /\ pc = "cascade" /\ call.fn = "clickFirst" /\ call.out = NoOut
    /\ call' = [call EXCEPT !.out = clickFirst(variant, call.q)]
    /\ UNCHANGED <<pc, params, outs, cause, fatal, afterFatal, setup, navv,
                   form, sdv, sav, ver>>

RunWaitAndTypeFirst ==
    /\ pc = "cascade" /\ call.fn = "waitAndTypeFirst" /\ call.out = NoOut
    /\ call' = [call EXCEPT !.out =
                   waitAndTypeFirst(variant, call.q, call.typeErr)]
    /\ UNCHANGED <<pc, params, outs, cause, fatal, afterFatal, setup, navv,
                   form, sdv, sav, ver>>

NextCascade == RunClickFirst \/ RunWaitAndTypeFirst

SpecCascade == InitCascade /\ [][NextCascade]_vars

\* ------------------------------------------------- clickFirst, await by await
\* clickFirst with wait = true, one step per promise that is issued or
\* settles, while the page's dialog handler is registered.  call.pending
\* holds the promises the workflow has issued and not yet seen settle
\* ("query": ctx.$(sel), "click": el.click(), "sleep": the delay);
\* call.dialog is "open" while a native dialog blocks the page and
\* "accepting" while the handler's d.accept() is in flight.

\* What clickFirst would issue if both variants used Promise.all.
clickStartsWithDelay(v) == {"click", "sleep"}

\* What clickFirst issues once the element is found: index.js awaits the
\* click alone; part_000 awaits Promise.all([el.click(), sleep(400)]).
clickStarts(v) == IF v = "part_000" THEN {"click", "sleep"} ELSE {"click"}

\* What is pending once the click has settled: index.js then issues
\* sleep(300); part_000 is left with whatever of Promise.all is unsettled.
afterClick(v, pending) ==
    IF v = "part_000" THEN pending \ {"click"} ELSE {"sleep"}

InitPending ==
    /\ pc = "pending"
    /\ variant \in Variants /\ debug = FALSE /\ dns2req = FALSE
    /\ browserOpen = TRUE /\ exitCode = 0 /\ nSuccess = 0 /\ nFailure = 0
    /\ cause = "none" /\ fatal = "none" /\ afterFatal = FALSE
    /\ dialogHandler = TRUE /\ newDocOverride = TRUE /\ gotoIssued = TRUE
    /\ LocalsInit
    /\ call \in [fn : {"clickFirst"}, q : AllContexts, i : {1}, at : {"loop"},
                 pending : {{}}, dialog : {"none"}, dialogs : {0},
                 res : {"none"}]

PendingUnchanged ==
    UNCHANGED <<pc, params, outs, cause, fatal, afterFatal, setup, navv, form,
                sdv, sav, ver>>

\* The loop head: the next selector is queried, or the list is exhausted
\* and clickFirst returns false.
CfIssueQuery ==
    /\ pc = "pending" /\ call.at = "loop"
    /\ call' = IF call.i > Len(call.q)
               THEN [call EXCEPT !.at = "returned", !.res = "false"]
               ELSE [call EXCEPT !.at = "query", !.pending = {"query"}]
    /\ PendingUnchanged

\* The query settles (the page answers nothing while a dialog blocks it):
\* null or a rejection moves on to the next selector, an element is clicked.
CfQueryDone ==
    /\ pc = "pending" /\ call.at = "query" /\ call.dialog = "none"
    /\ call' = IF call.q[call.i] \in {QNull, QError}
               THEN [call EXCEPT !.at = "loop", !.i = call.i + 1,
                                 !.pending = {}]
               ELSE [call EXCEPT !.at = "clicked",
                                 !.pending = clickStarts(variant)]
    /\ PendingUnchanged

\* What settling leaves: clickFirst returns true once nothing is pending.
Settled(c, pending) ==
    [c EXCEPT !.pending = pending,
              !.at = IF pending = {} THEN "returned" ELSE "clicked",
              !.res = IF pending = {} THEN "true" ELSE "none"]

\* The click settles, fulfilled or rejected (the rejection is swallowed);
\* a click that opened a dialog settles only after the dialog is gone.
CfClickDone ==
    /\ pc = "pending" /\ call.at = "clicked" /\ "click" \in call.pending
    /\ call.dialog = "none"
    /\ call' = Settled(call, afterClick(variant, call.pending))
    /\ PendingUnchanged

\* The delay's timer fires.
CfSleepDone ==
    /\ pc = "pending" /\ call.at = "clicked" /\ "sleep" \in call.pending
    /\ call' = Settled(call, call.pending \ {"sleep"})
    /\ PendingUnchanged

\* The page's script opens a native dialog; the engine emits 'dialog'.
DialogOpens ==
    /\ pc = "pending" /\ dialogHandler
    /\ call.at # "returned" /\ call.dialog = "none"
    /\ call.dialogs < MaxDialogs
    /\ call' = [call EXCEPT !.dialog = "open"]
    /\ PendingUnchanged

\* page.on('dialog'): the handler issues d.accept().
HandlerAccept ==
    /\ pc = "pending" /\ call.dialog = "open"
    /\ call' = [call EXCEPT !.dialog = "accepting"]
    /\ PendingUnchanged

\* d.accept() settles (a rejection is swallowed by the handler's catch).
AcceptDone ==
    /\ pc = "pending" /\ call.dialog = "accepting"
    /\ call' = [call EXCEPT !.dialog = "none", !.dialogs = call.dialogs + 1]
    /\ PendingUnchanged

NextPending ==
    \/ CfIssueQuery \/ CfQueryDone \/ CfClickDone \/ CfSleepDone
    \/ DialogOpens \/ HandlerAccept \/ AcceptDone

SpecPending == InitPending /\ [][NextPending]_vars


\* ================================================================ properties
\* The strategies of saveChanges in the order the log must show them.
SaveOrder ==
    <<"override", "fixed", "cascade">> \o SaveTexts \o <<"ApplyConfig">>

\* saveChanges has just returned: its log is still there.
SaveReturned == pc = "verify_poll" /\ saveLog # <<>>

\* C1: once the browser session has been launched it is closed on every
\* exit path: no terminal state of the run leaves the session open.
C1_SessionClosedOnEveryExit == Terminal => ~browserOpen

\* C2: a run ends with a non-zero exit status and a failure line if and
\* only if a failure was not recovered; otherwise it ends with the exit
\* status unset and exactly one success line; the two lines never both
\* appear.
C2_ExitStatusIffFailure ==
    Terminal =>
        /\ (cause # "none") <=> (exitCode = 1 /\ nFailure = 1)
        /\ (cause = "none") => (exitCode = 0 /\ nSuccess = 1)
        /\ ~(nSuccess > 0 /\ nFailure > 0)

\* C3: once one of the four fatal conditions (password field, navigation
\* path, primary DNS field, save control) is established, no further
\* workflow step acts on the page.
C3_NoStepAfterFatal == ~afterFatal

\* C4: verification is advisory.  verifyDnsApplied, the re-navigation it
\* makes included, never passes an error to main, and the check that follows
\* it leads to the success line exactly when saveChanges returned true and
\* to the catch clause exactly when it returned false, whatever
\* verifyDnsApplied returned.
C4_VerificationAdvisory ==
    [][ /\ ( \/ pc = "verify_poll"
             \/ (navCaller = "verify"
                 /\ pc \in {"nav_top", "nav_sub", "nav_leaf", "nav_title"}) )
           => (pc' # "catch" /\ cause' = cause)
        /\ pc = "checkSaved" /\ pc' # pc
           => /\ (pc' = "success") <=> saved
              /\ (pc' = "catch" /\ cause' = "nosave") <=> ~saved
        /\ pc = "success" /\ pc' # pc
           => (nSuccess' = 1 /\ nFailure' = 0 /\ exitCode' = 0)
      ]_vars

\* A run reports success although every poll of the verification failed.
C4_SuccessUnverified ==
    pc = "success" /\ saved /\ ~verified /\ poll = Retries /\ renavs = 1

\* C5: clickFirst and waitAndTypeFirst act on the element of the
\* lowest-index selector that matches, issue no query after it, and
\* return false without acting when no selector matches.
C5_CascadePriority ==
    (call # NoCall /\ call.out # NoOut) =>
        LET q == call.q
            hits == { k \in 1..Len(q) : q[k] > 0 }
        IN  IF hits # {}
            THEN LET first == CHOOSE k \in hits : \A j \in hits : k <= j
                 IN  /\ call.out.el = q[first]
                     /\ call.out.sel = first
                     /\ call.out.queried = first
            ELSE call.out.res = "false" /\ call.out.el = 0

\* C6: a selector query, text match or label match that fails, the
\* engine raising for it included, never aborts the run.
C6_FallbackNeverSurfaced ==
    cause \notin {"engine:query", "engine:clickByText", "engine:setInputByLabel"}

\* C7: the tiers of setDnsValues run in the order explicit selectors, label
\* association, heuristic scan; tier 2 runs for a field only when tier 1 did
\* not set it, tier 3 only when a requested field is unset after tier 2, and
\* neither runs when tier 1 set every requested field.
C7_TierOrder ==
    LET rank(n) == CASE n = "manual" -> 0 [] n = "t1.pri" -> 1
                     [] n = "t1.sec" -> 2 [] n = "t2.pri" -> 3
                     [] n = "t2.sec" -> 4 [] n = "t3" -> 5
        ran(n) == \E i \in 1..Len(tierLog) : tierLog[i][1] = n
        failed(n) == \E i \in 1..Len(tierLog) : tierLog[i] = <<n, "false">>
        priUnset == failed("t1.pri") /\ failed("t2.pri")
        secUnset == dns2req /\ failed("t1.sec") /\ failed("t2.sec")
    IN  /\ \A i, j \in 1..Len(tierLog) :
              i < j => rank(tierLog[i][1]) < rank(tierLog[j][1])
        /\ ran("t1.sec") => (dns2req /\ ran("t1.pri"))
        /\ ran("t2.pri") => failed("t1.pri")
        /\ ran("t2.sec") => (dns2req /\ failed("t1.sec"))
        /\ ran("t3") => (priUnset \/ secUnset)
        /\ pc \in {"sdv_debug", "sdv_check", "main_frame"} =>
              /\ ran("t1.pri")
              /\ dns2req => ran("t1.sec")
              /\ failed("t1.pri") => ran("t2.pri")
              /\ (dns2req /\ failed("t1.sec")) => ran("t2.sec")
              /\ (priUnset \/ secUnset) => ran("t3")

\* setDnsValues has gone through every tier for both fields.
C7_AllTiersRan ==
    /\ pc = "sdv_check"
    /\ Len(tierLog) = 6
    /\ tierLog[2] = <<"t1.pri", "false">>
    /\ tierLog[6][1] = "t3"

\* C8: with the content frame found, setDnsValues raises if and only if
\* the primary field is unresolved after the three tiers.
C8_RaisesIffPrimaryUnresolved ==
    /\ (pc = "catch" /\ cause # "frame") => (cause = "primary" /\ ~ok1)
    /\ pc = "main_frame" => ok1

\* C9, as stated: the strategies of saveChanges run in their order, nothing
\* runs after a success, the result is true when ApplyConfig exists, and
\* false only with every strategy exhausted, the run then failing with the
\* no-save-control error.
C9_SaveOrderAsStated ==
    /\ Len(saveLog) <= Len(SaveOrder)
    /\ \A i \in 1..Len(saveLog) :
          /\ saveLog[i][1] = SaveOrder[i]
          /\ (i > 1 /\ i < Len(saveLog)) => saveLog[i][2] \notin {"click", "ok"}
    /\ SaveReturned =>
          LET last == saveLog[Len(saveLog)] IN
          /\ last[2] = "click" => saved
          /\ (last[1] = "ApplyConfig" /\ applyConfigInvoked(last[2])) => saved
          /\ ~saved => Len(saveLog) = Len(SaveOrder)
    /\ (pc = "done" /\ fatal = "nosave") =>
          (cause = "nosave" /\ exitCode = 1 /\ nSuccess = 0)

\* C9, amended: as stated, but the result is true in the last strategy
\* when ApplyConfig exists and the evaluate that calls it completes
\* without raising; when that evaluate raises the result is false.
C9_SaveOrder ==
    /\ Len(saveLog) <= Len(SaveOrder)
    /\ \A i \in 1..Len(saveLog) :
          /\ saveLog[i][1] = SaveOrder[i]
          /\ (i > 1 /\ i < Len(saveLog)) => saveLog[i][2] \notin {"click", "ok"}
    /\ SaveReturned =>
          LET last == saveLog[Len(saveLog)] IN
          /\ saved <=> last[2] \in {"click", "ok"}
          /\ last = <<"ApplyConfig", "ok">> => saved
          /\ ~saved => /\ Len(saveLog) = Len(SaveOrder)
                       /\ last[2] \in {"nofn", "rejectBefore", "throwsInside"}
    /\ (pc = "done" /\ fatal = "nosave") =>
          (cause = "nosave" /\ exitCode = 1 /\ nSuccess = 0)

\* Every click strategy found nothing and ApplyConfig was called.
C9_ApplyConfigLastResort ==
    /\ SaveReturned /\ saved
    /\ Len(saveLog) = Len(SaveOrder)
    /\ saveLog[Len(saveLog)] = <<"ApplyConfig", "ok">>

\* C10: the dialog handler and the new-document override are installed
\* before page.goto is issued, and saveChanges evaluates its override in the
\* target context before it clicks any apply control or calls ApplyConfig.
C10_DialogsHandledFirst ==
    /\ gotoIssued => (dialogHandler /\ newDocOverride)
    /\ pc \in {"sc_fixed", "sc_cascade", "sc_text", "sc_apply"} =>
          saveLog # <<>>
    /\ \A i \in 1..Len(saveLog) :
          saveLog[i][1] # "override" =>
              (i > 1 /\ saveLog[1][1] = "override")

\* saveChanges has clicked the fixed apply button, after a page.goto.
C10_ClickedAfterOverride ==
    /\ SaveReturned /\ gotoIssued
    /\ Len(saveLog) = 2
    /\ saveLog[1][1] = "override"
    /\ saveLog[2] = <<"fixed", "click">>


\* C11: verifyDnsApplied returns true exactly when a poll read a primary
\* value equal to the expected one and, with a secondary requested, a
\* secondary value equal to the expected one; with no secondary requested
\* the secondary value read plays no part.  The loop goes on only after a
\* read that did not match.
C11_VerifiedIffReadMatches ==
    [][ (pc = "verify_poll" /\ pc' # pc) \/ (pc = "verify_poll" /\ poll' # poll)
        => LET read == lastRead' # NoRead
               matched == /\ lastRead'.primary = <<"dns1">>
                          /\ dns2req => lastRead'.secondary = <<"dns2">>
           IN  /\ verified' <=> (read /\ matched)
               /\ verified' => pc' = "checkSaved"
               /\ pc' # "checkSaved" => (read /\ ~matched)
      ]_vars

\* Verification succeeded with no secondary requested although the
\* secondary value read is not the one a request would have set.
C11_PrimaryAlone ==
    /\ pc = "checkSaved" /\ verified /\ ~dns2req
    /\ lastRead.primary = <<"dns1">>
    /\ lastRead.secondary # <<"dns2">>

\* C12: verifyDnsApplied calls navigateToDns at most once, and exactly on
\* the round that leaves one retry, after a read that did not match; a
\* match on the round after that call makes the result true.
C12_RenavigatesOnce ==
    [][ LET matched == /\ lastRead'.primary = <<"dns1">>
                       /\ dns2req => lastRead'.secondary = <<"dns2">>
            polled == pc = "verify_poll" /\ lastRead' # NoRead
        IN  /\ renavs' <= 1
            /\ (pc = "verify_poll" /\ renavs' # renavs)
                  => /\ renavs = 0 /\ renavs' = 1
                     /\ poll = Retries - 2
                     /\ polled /\ ~matched /\ ~verified'
                     /\ pc' = "nav_top" /\ navCaller' = "verify"
            /\ (polled /\ ~matched /\ poll = Retries - 2) => renavs' = renavs + 1
            /\ (navCaller = "verify" /\ pc # "verify_poll" /\ pc' = "verify_poll")
                  => (poll' = Retries - 1 /\ renavs' = 1)
            /\ (polled /\ matched /\ poll = Retries - 1 /\ renavs = 1)
                  => (verified' /\ pc' = "checkSaved")
      ]_vars

\* The values matched on the last round, after the one re-navigation.
C12_MatchAfterRenavigation ==
    pc = "checkSaved" /\ verified /\ renavs = 1 /\ poll = Retries - 1


C14_ReachedOnlyWithTitle ==
    (pc = "afterNav" /\ pathReached # "null")
        => navLog[Len(navLog)] = <<"title", "iframe-dhcp", "match">>

\* C14, as the code has it: the result "iframe-dhcp" is reported exactly
\* when the matching title was observed; when the content frame is found
\* but the title is missing, does not match or cannot be read, the
\* destination is still reported as reached, as "iframe-dhcp-no-title",
\* and main goes on to the DNS fields; only a missing content frame makes
\* the title step report null.
C14_TitleDecidesResultName ==
    [][ (pc = "afterNav" /\ navLog[Len(navLog)][1] = "title")
        => LET seen == navLog[Len(navLog)][3] IN
           /\ pathReached = "iframe-dhcp" <=> seen = "match"
           /\ pathReached = "iframe-dhcp-no-title" <=> seen \in {"nomatch", "error"}
           /\ pathReached = "null" <=> seen = "noframe"
           /\ pathReached # "null" => pc' = "sdv_frame"
      ]_vars

C14_ReachedWithoutTitle ==
    /\ pc = "afterNav"
    /\ pathReached = "iframe-dhcp-no-title"
    /\ navLog[Len(navLog)] = <<"title", "iframe-dhcp-no-title", "nomatch">>


\* What the run does when the content frame is not found at the title
\* check of main's navigation (the run fails with the path-not-reached
\* error) and at the start of setDnsValues (the run fails with the
\* frame-not-found error before any field is touched).
FrameMissingIsFatal ==
    /\ (pc = "afterNav" /\ navLog[Len(navLog)] = <<"title", "null", "noframe">>)
          => (pc' = "catch" /\ cause' = "path")
    /\ pc = "sdv_frame"
          => \/ pc' = "sdv_manual" /\ cause' = cause
             \/ pc' = "catch" /\ cause' = "frame" /\ fields' = fields
    /\ cause' = "frame" => (pc = "sdv_frame" \/ cause = "frame")

\* C15 as stated: a content frame that is not found is fatal at the
\* navigation title check, at DNS field writing and at clicking the apply
\* control, and the action is never performed against the top-level page.
C15_FrameMissingAlwaysFatal ==
    [][ /\ FrameMissingIsFatal
        /\ ~(saveCtx' = "page" /\ saveLog' # <<>>)
      ]_vars

\* C15, as the code has it: fatal at the navigation title check and at DNS
\* field writing; before the apply control is clicked a content frame that
\* is not found does not fail the run, and saveChanges works against the
\* top-level page instead.
C15_FrameMissingFatalBeforeSave ==
    [][ /\ FrameMissingIsFatal
        /\ pc = "main_frame"
              => /\ saveCtx' \in {"frame", "page"}
                 /\ pc' = saveChangesEntry
                 /\ cause' = cause /\ fatal' = fatal
      ]_vars

C15_SavedOnTopLevelPage ==
    /\ SaveReturned
    /\ saveCtx = "page"
    /\ saved


\* C16: every field the resolver has written, in whichever tier and
\* whatever the field held before, holds exactly the requested value and
\* has had an input notification and, after the value was set, a change
\* notification.
C16_WriteSetsValueAndNotifies ==
    \A i \in DOMAIN fields :
        fields[i].inp => /\ fields[i].val \in {<<"dns1">>, <<"dns2">>}
                         /\ fields[i].chg


\* The browser operations in flight: those of the workflow and the
\* handler's accept.
WorkflowOps == call.pending \cap {"query", "click"}
InFlight == WorkflowOps \cup (IF call.dialog = "accepting" THEN {"accept"} ELSE {})

\* C17 as stated: at most one browser operation is in flight at any time,
\* the dialog handler's accept included, and no click overlaps another
\* pending step of the workflow.
C17_OneOperationInFlight ==
    /\ Cardinality(InFlight) <= 1
    /\ "click" \in call.pending => call.pending = {"click"}

\* C17, as the code has it: the workflow itself never has two browser
\* operations in flight, and in index.js a click overlaps no other
\* pending step; the dialog handler's accept runs while the workflow's
\* operation is still pending, and in part_000 the click of clickFirst
\* overlaps the delay that follows it, and nothing else.
C17_WorkflowOperationsSequential ==
    /\ Cardinality(WorkflowOps) <= 1
    /\ "query" \in call.pending => call.pending = {"query"}
    /\ "click" \in call.pending =>
          IF variant = "part_000" THEN call.pending \subseteq {"click", "sleep"}
          ELSE call.pending = {"click"}
    /\ call.at = "returned" =>
          /\ call.pending = {}
          /\ call.res = clickFirst(variant, call.q).res

C17_AcceptDuringClickAndDelay ==
    /\ variant = "part_000"
    /\ call.pending = {"click", "sleep"}
    /\ call.dialog = "accepting"


\* C18: tier 3 works on the inputs whose id/name/class contains "dns", in
\* document order.  The primary value goes to the first candidate named
\* like a primary, else to the first candidate; when dns2 is requested the
\* secondary value goes to the first candidate named like a secondary,
\* else to the first candidate other than the primary one; no other field
\* is touched; with no candidates tier 3 reports the primary unset and
\* writes nothing.
C18_HeuristicAssignment ==
    [][ pc = "sdv_t3" =>
        LET n == Len(page.inputs)
            cand == { i \in 1..n : looksLikeDns(page.inputs[i]) }
            firstOf(S, i) == i \in S /\ \A j \in S : i <= j
            pris == { i \in cand : PrimaryRx(page.inputs[i]) }
            secs == { i \in cand : SecondaryRx(page.inputs[i]) }
            isPri(p) == IF pris # {} THEN firstOf(pris, p) ELSE firstOf(cand, p)
            isSec(x, p) == /\ dns2req
                           /\ IF secs # {} THEN firstOf(secs, x)
                              ELSE firstOf(cand \ {p}, x)
            reported == tierLog'[Len(tierLog')]
        IN  /\ reported[1] = "t3"
            /\ cand = {} => reported[2] = "false"
            /\ reported[2] = "false" => (fields' = fields /\ ok1' = ok1)
            /\ reported[2] = "true" =>
                  \E p \in cand :
                     /\ isPri(p)
                     /\ \A i \in 1..n :
                           fields'[i] =
                              IF isSec(i, p) THEN Field(<<"dns2">>, TRUE, TRUE)
                              ELSE IF i = p THEN Field(<<"dns1">>, TRUE, TRUE)
                              ELSE fields[i]
      ]_vars

\* The scenario of the two inputs foo-dns-a and foo-dns-b: tier 3 has put
\* the primary value into the first and the secondary into the second.
C18_PositionalAssignment ==
    /\ Len(page.inputs) = 2
    /\ page.inputs[1].id = <<"f","o","o","-","d","n","s","-","a">>
    /\ page.inputs[2].id = <<"f","o","o","-","d","n","s","-","b">>
    /\ tierLog # <<>> /\ tierLog[Len(tierLog)] = <<"t3", "true">>
    /\ fields = <<Field(<<"dns1">>, TRUE, TRUE), Field(<<"dns2">>, TRUE, TRUE)>>


\* C19: every run ends in a terminal state in which success or failure
\* has been reported and the session is closed; on the way verification
\* makes at most Retries read-backs and at most one re-navigation, and a
\* navigation makes at most three transitions.
C19_EndsReportedAndClosed ==
    LET transitions == { i \in 1..Len(navLog) :
                           navLog[i][1] \in {"top", "sub", "leaf"} }
    IN  /\ Terminal => (pc = "done" /\ ~browserOpen /\ nSuccess + nFailure = 1)
        /\ poll <= Retries
        /\ renavs <= 1
        /\ Cardinality(transitions) <= 3


\* C20: on every page on which setDnsValues has written the primary field
\* (and the secondary, when requested) through any of its tiers,
\* readDnsValuesFromFrame reads the written elements: with the form
\* keeping what was written, the read-back matches the requested values.
C20_ReadBackCoversWritten ==
    (pc = "main_frame" /\ ok1 /\ (dns2req => ok2))
        => valuesMatch(readDnsValuesFromFrame(page, fields, FALSE))


\* C21: once tier 1 or tier 2 has set the primary field, tier 3 does not
\* write the primary value again: it writes at most one field, with the
\* secondary value, and leaves every other input as it was.
C21_PrimaryWrittenOnce ==
    [][ (pc = "sdv_t3" /\ ok1)
        => LET changed == { i \in DOMAIN fields : fields'[i] # fields[i] }
           IN  /\ Cardinality(changed) <= 1
               /\ \A i \in changed : fields'[i].val = <<"dns2">>
      ]_vars


\* C22: with both values requested, no tier writes the secondary value
\* into the element that received the primary value: when setDnsValues
\* returns with ok1 = true, some input still holds dns1.
C22_PrimaryNotOverwritten ==
    (pc = "main_frame" /\ dns2req /\ ok1)
        => \E i \in DOMAIN fields :
              /\ fields[i].val # <<>>
              /\ fields[i].val[Len(fields[i].val)] = "dns1"


\* C23: when no dns2 is given, setDnsValues never runs the secondary
\* selector cascade or the secondary label lookups, the heuristic scan
\* picks no secondary element, ok2 is true from its assignment on, no
\* input receives the secondary value, and at most one input, the one
\* that received dns1, has been written.
C23_NoSecondaryWithoutDns2 ==
    ~dns2req =>
        LET written == { i \in DOMAIN fields : fields[i] # InitialFields(page)[i] }
        IN  /\ \A k \in 1..Len(tierLog) : tierLog[k][1] \notin {"t1.sec", "t2.sec"}
            /\ pc \in {"sdv_t2pri", "sdv_t3", "sdv_debug", "sdv_check", "main_frame"}
                  => ok2
            /\ pc # "sdv_t1sec" /\ pc # "sdv_t2sec"
            /\ Cardinality(written) <= 1
            /\ \A i \in written :
                  /\ fields[i].inp
                  /\ fields[i].val[Len(fields[i].val)] = "dns1"
                  /\ \A k \in 1..Len(fields[i].val) : fields[i].val[k] # "dns2"

\* Without dns2, the heuristic scan has met two candidates and written
\* the primary value into one of them only.
C23_HeuristicWritesPrimaryOnly ==
    /\ ~dns2req /\ pc = "main_frame"
    /\ tierLog[Len(tierLog)] = <<"t3", "true">>
    /\ Cardinality(Candidates(page)) = 2
    /\ Cardinality({ i \in DOMAIN fields : fields[i].inp }) = 1

=============================================================================
